---- MODULE Spec2Model ----
(***************************************************************************)
(* Model of one voice session of backend/app/routes/voice_realtime_v2.py:  *)
(* the receive loop of voice_stream_endpoint, process_user_message with    *)
(* its token streaming loop, the tts_worker task and the regex extractor   *)
(* extract_structured_data; and of the registry of notification sockets,   *)
(* UserConnectionManager of backend/app/routes/user_notification_routes.py.*)
(*                                                                         *)
(* Text is a sequence of one-character strings.  A dict is a function      *)
(* whose DOMAIN is the set of keys present.                                *)
(***************************************************************************)
EXTENDS Integers, Sequences, FiniteSets, TLC

\* ------------------------------------------------------------------ bounds
\* inbound websocket messages plus non-empty language-model lines that one
\* session reads
MaxEvents == 3

\* turns, each with its reply, that lie behind a session taken up midway
MaxPastTurns == 3

\* notification websockets opened during a run
MaxSockets == 3

\* user ids the notification websockets are opened for
MaxUsers == 2

\* ------------------------------------------------------- program constants
CREDIT_MIN == 300
CREDIT_MAX == 850
INCOME_MIN == 100
INCOME_MAX == 1000000
LOAN_MIN == 1000
LOAN_MAX == 10000000
FLUSH_LEN == 100
HISTORY_WINDOW == 5

\* --------------------------------------------------------------- text help
Digits == {"0", "1", "2", "3", "4", "5", "6", "7", "8", "9"}

DigitVal(c) ==
  CASE c = "0" -> 0 [] c = "1" -> 1 [] c = "2" -> 2 [] c = "3" -> 3
    [] c = "4" -> 4 [] c = "5" -> 5 [] c = "6" -> 6 [] c = "7" -> 7
    [] c = "8" -> 8 [] c = "9" -> 9

Min(a, b) == IF a < b THEN a ELSE b

Max(a, b) == IF a < b THEN b ELSE a

\* number of leading digit characters of s
RECURSIVE LeadDigits(_)
LeadDigits(s) ==
  IF s = <<>> \/ Head(s) \notin Digits THEN 0 ELSE 1 + LeadDigits(Tail(s))

\* s.replace(',', '')
RECURSIVE RemoveCommas(_)
RemoveCommas(s) ==
  IF s = <<>> THEN <<>>
  ELSE IF Head(s) = "," THEN RemoveCommas(Tail(s))
  ELSE <<Head(s)>> \o RemoveCommas(Tail(s))

\* int(s) / float(s) of a string of digits
RECURSIVE ToInt(_)
ToInt(s) ==
  IF s = <<>> THEN 0 ELSE 10 * ToInt(SubSeq(s, 1, Len(s) - 1)) + DigitVal(s[Len(s)])

\* the groups (?:,\d{3})* matched greedily at the start of s
RECURSIVE CommaGroups(_)
CommaGroups(s) ==
  IF Len(s) >= 4 /\ s[1] = "," /\ LeadDigits(Tail(s)) >= 3
  THEN SubSeq(s, 1, 4) \o CommaGroups(SubSeq(s, 5, Len(s)))
  ELSE <<>>

\* group(1) of \$?(\d{1,3}(?:,\d{3})*(?:\.\d{2})?) matched at the start of s;
\* <<>> when the pattern does not match there
AmountCapture(s) ==
  LET k == Min(3, LeadDigits(s))
  IN IF k = 0 THEN <<>>
     ELSE SubSeq(s, 1, k) \o CommaGroups(SubSeq(s, k + 1, Len(s)))

\* group(1) of (\d{3}) matched at the start of s; <<>> when it does not match
ScoreCapture(s) == IF LeadDigits(s) >= 3 THEN SubSeq(s, 1, 3) ELSE <<>>

\* ----------------------------------------------------- parse_written_number
credit_score_shortcuts ==
  [w \in {<<"seven", "fifty">>, <<"seven", "hundred">>, <<"six", "fifty">>,
          <<"six", "hundred">>, <<"eight", "hundred">>,
          <<"seven", "hundred", "fifty">>, <<"six", "hundred", "fifty">>} |->
     CASE w = <<"seven", "fifty">> -> 750
       [] w = <<"seven", "hundred">> -> 700
       [] w = <<"six", "fifty">> -> 650
       [] w = <<"six", "hundred">> -> 600
       [] w = <<"eight", "hundred">> -> 800
       [] w = <<"seven", "hundred", "fifty">> -> 750
       [] w = <<"six", "hundred", "fifty">> -> 650]

ones ==
  [w \in {"one", "two", "three", "four", "five", "six", "seven", "eight",
          "nine", "ten", "eleven", "twelve", "thirteen", "fourteen",
          "fifteen", "sixteen", "seventeen", "eighteen", "nineteen"} |->
     CASE w = "one" -> 1 [] w = "two" -> 2 [] w = "three" -> 3
       [] w = "four" -> 4 [] w = "five" -> 5 [] w = "six" -> 6
       [] w = "seven" -> 7 [] w = "eight" -> 8 [] w = "nine" -> 9
       [] w = "ten" -> 10 [] w = "eleven" -> 11 [] w = "twelve" -> 12
       [] w = "thirteen" -> 13 [] w = "fourteen" -> 14 [] w = "fifteen" -> 15
       [] w = "sixteen" -> 16 [] w = "seventeen" -> 17
       [] w = "eighteen" -> 18 [] w = "nineteen" -> 19]

tens ==
  [w \in {"twenty", "thirty", "forty", "fifty", "sixty", "seventy", "eighty",
          "ninety"} |->
     CASE w = "twenty" -> 20 [] w = "thirty" -> 30 [] w = "forty" -> 40
       [] w = "fifty" -> 50 [] w = "sixty" -> 60 [] w = "seventy" -> 70
       [] w = "eighty" -> 80 [] w = "ninety" -> 90]

scales ==
  [w \in {"hundred", "thousand", "million"} |->
     CASE w = "hundred" -> 100 [] w = "thousand" -> 1000
       [] w = "million" -> 1000000]

\* the for loop of parse_written_number over the remaining words
RECURSIVE WrittenLoop(_, _, _)
WrittenLoop(words, result, current) ==
  IF words = <<>> THEN result + current
  ELSE LET w == Head(words)
           rest == Tail(words)
       IN IF w \in DOMAIN ones THEN WrittenLoop(rest, result, current + ones[w])
          ELSE IF w \in DOMAIN tens
            THEN WrittenLoop(rest, result, current + tens[w])
          ELSE IF w \in DOMAIN scales
            THEN LET c == (IF current = 0 THEN 1 ELSE current) * scales[w]
                 IN IF scales[w] >= 1000
                    THEN WrittenLoop(rest, result + c, 0)
                    ELSE WrittenLoop(rest, result, c)
          ELSE WrittenLoop(rest, result, current)

parse_written_number(words) ==
  IF words \in DOMAIN credit_score_shortcuts
  THEN credit_score_shortcuts[words]
  ELSE WrittenLoop(words, 0, 0)

\* ------------------------------------------------------------------ dicts
Put(d, k, v) == [x \in (DOMAIN d) \cup {k} |-> IF x = k THEN v ELSE d[x]]

EmptyDict == [x \in {} |-> 0]

\* -------------------------------------------------------------- utterances
\* A user text is described by what the patterns of extract_structured_data
\* find in it: name is group(1) of the first matching name pattern (a
\* sequence of words, <<>> for no match); income, score and loan list, in
\* pattern order, the place each matching pattern captures from: the words
\* captured by a written-number pattern, or the characters that start at
\* the number of a numeric pattern.  docv: "document verified" occurs in
\* text.lower().  blank: text.strip() is empty.  str: the value is a string.
Utter(str, blank, docv, name, income, score, loan) ==
  [str |-> str, blank |-> blank, docv |-> docv, name |-> name,
   income |-> income, score |-> score, loan |-> loan]

Written(words) == [written |-> TRUE, at |-> words]

Numeric(chars) == [written |-> FALSE, at |-> chars]

\* the text "" that process_user_message substitutes after a verification
EmptyText == Utter(TRUE, TRUE, FALSE, <<>>, <<>>, <<>>, <<>>)

\* -------------------------------------------------- extract_structured_data
\* income_str / amount_str converted as the try block does
AmountValue(m) ==
  IF m.written THEN parse_written_number(m.at)
  ELSE ToInt(RemoveCommas(AmountCapture(m.at)))

\* score_str converted as the try block does
ScoreValue(m) ==
  IF m.written THEN parse_written_number(m.at)
  ELSE ToInt(ScoreCapture(m.at))

IncomeInRange(income) == INCOME_MIN <= income /\ income <= INCOME_MAX

ScoreInRangeNoUpper(score) == CREDIT_MIN <= score

ScoreInRange(score) == CREDIT_MIN <= score /\ score <= CREDIT_MAX

LoanInRangeNoFloor(amount) == amount <= LOAN_MAX

LoanInRange(amount) == LOAN_MIN <= amount /\ amount <= LOAN_MAX

\* the pattern loops: the first match whose value passes the range check is
\* stored and ends the loop, a match that fails it is passed over
RECURSIVE IncomeLoop(_, _)
IncomeLoop(ms, data) ==
  IF ms = <<>> THEN data
  ELSE IF ~Head(ms).written /\ AmountCapture(Head(ms).at) = <<>>
    THEN IncomeLoop(Tail(ms), data)
  ELSE IF IncomeInRange(AmountValue(Head(ms)))
    THEN Put(data, "monthly_income", AmountValue(Head(ms)))
  ELSE IncomeLoop(Tail(ms), data)

RECURSIVE ScoreLoop(_, _)
ScoreLoop(ms, data) ==
  IF ms = <<>> THEN data
  ELSE IF ~Head(ms).written /\ ScoreCapture(Head(ms).at) = <<>>
    THEN ScoreLoop(Tail(ms), data)
  ELSE IF ScoreInRange(ScoreValue(Head(ms)))
    THEN Put(data, "credit_score", ScoreValue(Head(ms)))
  ELSE ScoreLoop(Tail(ms), data)

RECURSIVE LoanLoop(_, _)
LoanLoop(ms, data) ==
  IF ms = <<>> THEN data
  ELSE IF ~Head(ms).written /\ AmountCapture(Head(ms).at) = <<>>
    THEN LoanLoop(Tail(ms), data)
  ELSE IF LoanInRange(AmountValue(Head(ms)))
    THEN Put(data, "loan_amount", AmountValue(Head(ms)))
  ELSE LoanLoop(Tail(ms), data)

\* the guard in front of each field's block: the field is not yet in data
FieldOpenAlways(data, k) == TRUE

FieldOpen(data, k) == k \notin DOMAIN data

ExtractName(u, data) ==
  IF FieldOpen(data, "name") /\ u.name # <<>>
  THEN Put(data, "name", SubSeq(u.name, 1, Min(2, Len(u.name))))
  ELSE data

ExtractIncome(u, data) ==
  IF FieldOpen(data, "monthly_income") THEN IncomeLoop(u.income, data) ELSE data

ExtractScore(u, data) ==
  IF FieldOpen(data, "credit_score") THEN ScoreLoop(u.score, data) ELSE data

ExtractLoan(u, data) ==
  IF FieldOpen(data, "loan_amount") THEN LoanLoop(u.loan, data) ELSE data

extract_structured_data(u, existing_data) ==
  ExtractLoan(u, ExtractScore(u, ExtractIncome(u, ExtractName(u, existing_data))))

\* ------------------------------------------------------ inputs of the model
\* "   "
UBlank == Utter(TRUE, TRUE, FALSE, <<>>, <<>>, <<>>, <<>>)

\* a manual_transcript whose data is a number, not a string
UNonStr == Utter(FALSE, FALSE, FALSE, <<>>, <<>>, <<>>, <<>>)

\* "my name is Alice Marie Smith, my income is 5,000, my credit score is
\* 750 and i need 20,000"
UAll ==
  Utter(TRUE, FALSE, FALSE, <<"Alice", "Marie", "Smith">>,
        <<Numeric(<<"5", ",", "0", "0", "0">>)>>,
        <<Numeric(<<"7", "5", "0">>), Numeric(<<"7", "5", "0">>)>>,
        <<Numeric(<<"2", "0", ",", "0", "0", "0">>)>>)

\* "i am Bob, my credit score is seven hundred and i make 4000"
UBob ==
  Utter(TRUE, FALSE, FALSE, <<"Bob">>,
        <<Numeric(<<"4", "0", "0", "0">>)>>,
        <<Written(<<"seven", "hundred">>), Written(<<"seven", "hundred">>)>>,
        <<>>)

\* "my credit score is eight fifty, i mean the score is 950, and i need 500"
UHigh ==
  Utter(TRUE, FALSE, FALSE, <<>>, <<>>,
        <<Written(<<"eight", "fifty">>), Written(<<"eight">>),
          Numeric(<<"9", "5", "0">>)>>,
        <<Numeric(<<"5", "0", "0">>)>>)

\* "document verified, this is Carol"
UDocv == Utter(TRUE, FALSE, TRUE, <<"Carol">>, <<>>, <<>>, <<>>)

\* "my income is 5,000, my credit score is 750 and i need 20,000"
UNoName ==
  Utter(TRUE, FALSE, FALSE, <<>>,
        <<Numeric(<<"5", ",", "0", "0", "0">>)>>,
        <<Numeric(<<"7", "5", "0">>), Numeric(<<"7", "5", "0">>)>>,
        <<Numeric(<<"2", "0", ",", "0", "0", "0">>)>>)

\* "hello, can you help me"
UChat == Utter(TRUE, FALSE, FALSE, <<>>, <<>>, <<>>, <<>>)

\* what a recognizer result or a manual_transcript can carry
Utterances == {UAll, UBob, UHigh, UDocv, UNoName}

\* lines of the language-model stream after rstrip(); "|" stands for the
\* structured-data delimiter, followed by the payload
TokWord == <<"h", "i">>

TokEnd == <<"o", "k", ".">>

TokDelim == <<"|", "{", "}">>

TokBlank == <<>>

\* a line with which the model starts to write the user's next turn itself
TokUser == <<"U", "s", "e", "r", ":">>

Tokens == {TokWord, TokEnd, TokDelim, TokBlank, TokUser}

\* n times the character c
Rep(c, n) == [i \in 1..n |-> c]

\* a line of 101 characters without a space and without a terminator
TokLong == Rep("x", FLUSH_LEN + 1)

\* a line of 101 characters whose only space follows its first word
TokLongSpaced == <<"a", " ">> \o Rep("x", FLUSH_LEN - 1)

LongTokens == {TokLong, TokLongSpaced, TokEnd}

\* ------------------------------------------------------------ string help
Whitespace == {" "}

Terminators == {".", "!", "?", ":"}

RECURSIVE LStrip(_)
LStrip(s) == IF s # <<>> /\ Head(s) \in Whitespace THEN LStrip(Tail(s)) ELSE s

RECURSIVE RStrip(_)
RStrip(s) ==
  IF s # <<>> /\ s[Len(s)] \in Whitespace
  THEN RStrip(SubSeq(s, 1, Len(s) - 1)) ELSE s

Strip(s) == LStrip(RStrip(s))

\* token.rstrip().endswith(('.', '!', '?', ':'))
EndsSentence(token) ==
  LET t == RStrip(token) IN t # <<>> /\ t[Len(t)] \in Terminators

\* s.rfind(' ') counted from 0, -1 when there is none
RFindSpace(s) ==
  LET at == {i \in 1..Len(s) : s[i] = " "}
  IN IF at = {} THEN -1
     ELSE (CHOOSE i \in at : \A j \in at : j <= i) - 1

HasDelim(token) == \E i \in 1..Len(token) : token[i] = "|"

\* s holds the start of a fabricated user turn
HasUserTurn(s) ==
  \E i \in 1..Len(s) :
    i + Len(TokUser) - 1 <= Len(s) /\ SubSeq(s, i, i + Len(TokUser) - 1) = TokUser

\* ------------------------------------------------------------------ state
VARIABLES
  pc,                    \* position of voice_stream_endpoint's main task
  recognizer,            \* the Vosk recognizer was created
  ml_service,            \* get_ml_service() returned a service
  wsOpen,                \* the websocket can still carry messages
  conversation_history,  \* entries [role, turn]
  structured_data,       \* dict of the extracted fields
  text,                  \* the text process_user_message is working on
  tts_queue,             \* asyncio.Queue of sentences, None is the stop signal
  tts_buffer,            \* speakable text not yet queued
  ai_message,            \* reply text of the current turn
  nTok,                  \* non-empty lines read from the streams so far
  llmDelim,              \* the stream has produced the delimiter in this turn
  turn,                  \* number of user messages appended so far
  ord,                   \* sentences queued in this turn
  tts_pc,                \* position of tts_worker
  tts_cur,               \* the sentence tts_worker is synthesizing
  sent,                  \* the messages the last step sent to the client
  lastAudio,             \* turn and ordinal of the last audio_chunk sent
  mlCalls,               \* calls of ml_service.predict_eligibility
  llmCalls,              \* calls of run_ollama_stream
  nDvr,                  \* document_verification_required messages sent
  nIn,                   \* inbound messages received
  lastIn,                \* kind of the inbound message the last step read
  closeCause,            \* why the receive loop was left
  firstSet,              \* per field, the value of the first text that set it
  lastFail,              \* the backend call that failed in the last step
  prevFinal,             \* text of the latest non-empty final transcript
  prompt,                \* history entries in the latest run_ollama_stream prompt
  active_connections,    \* user_manager.active_connections: user id -> list
  endpoint,              \* per websocket: position of user_notifications_ws
  sending,               \* the for loop of a send_to_user call under way
  delivered              \* the websocket the last step sent a notification to

vars ==
  <<pc, recognizer, ml_service, wsOpen, conversation_history, structured_data,
    text, tts_queue, tts_buffer, ai_message, nTok, llmDelim, turn, ord,
    tts_pc, tts_cur, sent, lastAudio, mlCalls, llmCalls, nDvr, nIn, lastIn,
    closeCause, firstSet, lastFail, prevFinal, prompt,
    active_connections, endpoint, sending, delivered>>

notifyVars == <<active_connections, endpoint, sending, delivered>>

\* what no step of a voice session writes
sessionVars == <<recognizer, ml_service, notifyVars>>

turnVars == <<text, ai_message, nTok, llmDelim, turn, ord, prompt>>

dataVars == <<conversation_history, structured_data, firstSet>>

ttsVars == <<tts_pc, tts_cur, lastAudio>>

countVars == <<mlCalls, llmCalls, nDvr>>

Msg(type, t, o, late) == [type |-> type, turn |-> t, ord |-> o, late |-> late]

Sentence(s, t, o, late) ==
  [text |-> s, turn |-> t, ord |-> o, late |-> late, stop |-> FALSE]

StopSignal == [text |-> <<>>, turn |-> 0, ord |-> 0, late |-> FALSE, stop |-> TRUE]

ProfileFields == {"name", "monthly_income", "credit_score", "loan_amount"}

WebSockets == 1..MaxSockets

UserIds == 1..MaxUsers

\* no send_to_user call is under way
NoSend == [user |-> 0, idx |-> 0, detached |-> FALSE]

\* user_manager = UserConnectionManager(), no endpoint called yet
NotifyInit ==
  /\ active_connections = EmptyDict
  /\ endpoint = [w \in WebSockets |-> [st |-> "new", user |-> 0]]
  /\ sending = NoSend
  /\ delivered = 0

\* tts_queue.put(item): asyncio.Queue is first in, first out
QPutFront(q, item) == <<item>> \o q

QPut(q, item) == Append(q, item)

\* a queue built with maxsize=1: put waits while an item is in it
QueueHasRoomOne(q) == Len(q) < 1

\* tts_queue = asyncio.Queue() has no maxsize: put never waits
QueueHasRoom(q) == TRUE

Init ==
  /\ pc = "recv"
  /\ recognizer \in BOOLEAN
  /\ ml_service \in BOOLEAN
  /\ wsOpen = TRUE
  /\ conversation_history = <<>>
  /\ structured_data = EmptyDict
  /\ text = EmptyText
  /\ tts_queue = <<>>
  /\ tts_buffer = <<>>
  /\ ai_message = <<>>
  /\ nTok = 0
  /\ llmDelim = FALSE
  /\ turn = 0
  /\ ord = 0
  /\ tts_pc = "get"
  /\ tts_cur = StopSignal
  /\ sent = <<>>
  /\ lastAudio = [turn |-> 0, ord |-> 0]
  /\ mlCalls = 0
  /\ llmCalls = 0
  /\ nDvr = 0
  /\ nIn = 0
  /\ lastIn = "none"
  /\ closeCause = "none"
  /\ firstSet = EmptyDict
  /\ lastFail = "none"
  /\ prevFinal = EmptyText
  /\ prompt = <<>>
  /\ NotifyInit

\* ------------------------------------------------- predict_loan_eligibility
\* structured_data.get('document_verified', False)
DocVerified(sd) == "document_verified" \in DOMAIN sd /\ sd["document_verified"]

\* the guards in front of the try block: ml_service.predict_eligibility is
\* reached exactly when they all pass
predict_loan_eligibility(sd, ml) ==
  /\ ml
  /\ DocVerified(sd)
  /\ {"monthly_income", "credit_score", "loan_amount"} \subseteq DOMAIN sd

\* has_all_fields of the completion gate
HasAllFields(sd) == ProfileFields \subseteq DOMAIN sd

\* the first branch of the completion gate calls ml_service.predict_eligibility
GateInvokesOnFields(sd, ml) == HasAllFields(sd) /\ ml

GateInvokes(sd, ml) ==
  /\ "document_verified" \in DOMAIN sd
  /\ sd["document_verified"] = TRUE
  /\ predict_loan_eligibility(sd, ml)

\* the second branch of the completion gate
GateRequestsVerification(sd) ==
  /\ ~("document_verified" \in DOMAIN sd /\ sd["document_verified"] = TRUE)
  /\ HasAllFields(sd)
  /\ ~DocVerified(sd)

\* the profile fields a text sets on a profile that holds none of them
SetsOf(u) == extract_structured_data(u, EmptyDict)

Overlay(d, e) == [k \in (DOMAIN d) \cup (DOMAIN e) |-> IF k \in DOMAIN e THEN e[k] ELSE d[k]]

\* --------------------------------------------------------- run_ollama_stream
\* conversation_history[:5]
PromptWindowOldest(h) == SubSeq(h, 1, Min(HISTORY_WINDOW, Len(h)))

\* conversation_history[-5:], the entries the for loop writes into full_prompt
PromptWindow(h) == SubSeq(h, Max(1, Len(h) - HISTORY_WINDOW + 1), Len(h))

\* ----------------------------------------------------- process_user_message
\* a history kept as a window of the two latest entries
HistoryAppendWindow(h, e) ==
  LET a == Append(h, e) IN IF Len(a) > 2 THEN SubSeq(a, Len(a) - 1, Len(a)) ELSE a

\* conversation_history.append(entry)
HistoryAppend(h, e) == Append(h, e)

\* the flag written on every message, with the outcome of the test
MarkDocumentVerifiedEachMessage(sd, u) == Put(sd, "document_verified", u.docv)

\* the "document verified" branch sets the flag; other messages leave it
MarkDocumentVerified(sd, u) ==
  IF u.docv THEN Put(sd, "document_verified", TRUE) ELSE sd

\* the caller's message sent after those of process_user_message
SentReplyFirst(pre, out) == out \o pre

\* what the caller sends before the call, then what process_user_message
\* sends
SentInOrder(pre, out) == pre \o out

\* From the call to the point where the token stream is open (or was found
\* unavailable).  pre: what the caller has sent in the same step.
process_user_message(u, pre) ==
  IF u.blank
  THEN /\ pc' = "recv"
       /\ sent' = pre
       /\ lastFail' = "none"
       /\ UNCHANGED <<dataVars, turnVars, countVars, tts_queue, tts_buffer>>
  ELSE LET sd1 == MarkDocumentVerified(structured_data, u)
           inv1 == u.docv /\ predict_loan_eligibility(sd1, ml_service)
           text1 == IF u.docv THEN EmptyText ELSE u
           sd2 == extract_structured_data(text1, sd1)
           out2 == IF sd2 # sd1 THEN <<Msg("structured_update", turn + 1, 0, FALSE)>>
                   ELSE <<>>
       IN \E r1 \in (IF inv1 THEN BOOLEAN ELSE {FALSE}), up \in BOOLEAN :
            LET out1 == IF r1 THEN <<Msg("eligibility_result", turn + 1, 0, FALSE),
                                     Msg("ai_token", turn + 1, 0, FALSE)>>
                        ELSE <<>>
            IN /\ conversation_history' =
                    HistoryAppend(conversation_history,
                                  [role |-> "user", turn |-> turn + 1])
               /\ turn' = turn + 1
               /\ ord' = 0
               /\ structured_data' = sd2
               /\ firstSet' = Overlay(SetsOf(text1), firstSet)
               /\ mlCalls' = mlCalls + (IF inv1 THEN 1 ELSE 0)
               /\ llmCalls' = llmCalls + 1
               /\ prompt' = PromptWindow(conversation_history')
               /\ IF up
                  THEN /\ pc' = "stream"
                       /\ text' = text1
                       /\ lastFail' = "none"
                       /\ sent' = SentInOrder(pre, out1 \o out2)
                  ELSE /\ pc' = "recv"
                       /\ text' = EmptyText
                       /\ lastFail' = "llm_start"
                       /\ sent' = SentInOrder(pre, out1 \o out2
                                    \o <<Msg("error", turn + 1, 0, FALSE)>>)
               /\ UNCHANGED <<ai_message, nTok, llmDelim, nDvr, tts_queue, tts_buffer>>

\* one pass of the while loop that reads the stream.  On a closed websocket
\* the send of a non-empty line raises inside the try statement: that pass is
\* the stream ending by error
StreamToken(token) ==
  /\ pc = "stream"
  /\ IF token = <<>>
     THEN /\ sent' = <<>>
          /\ UNCHANGED <<ai_message, tts_buffer, tts_queue, ord, llmDelim, nTok>>
     ELSE LET late == llmDelim \/ HasDelim(token)
              buf == tts_buffer \o token
              last_space == RFindSpace(buf)
              sentence_to_queue == Strip(buf)
              partial_to_queue == Strip(SubSeq(buf, 1, last_space))
          IN /\ nIn + nTok < MaxEvents
             /\ wsOpen
             /\ nTok' = nTok + 1
             /\ sent' = <<Msg("ai_token", turn, 0, late)>>
             /\ llmDelim' = late
             /\ ai_message' = ai_message \o token
             /\ IF EndsSentence(token)
                THEN /\ tts_buffer' = <<>>
                     /\ IF sentence_to_queue # <<>>
                        THEN /\ QueueHasRoom(tts_queue)
                             /\ tts_queue' = QPut(tts_queue,
                                  Sentence(sentence_to_queue, turn, ord + 1, late))
                             /\ ord' = ord + 1
                        ELSE UNCHANGED <<tts_queue, ord>>
                ELSE IF Len(buf) > FLUSH_LEN /\ last_space > 0
                THEN /\ tts_buffer' = Strip(SubSeq(buf, last_space + 1, Len(buf)))
                     /\ IF partial_to_queue # <<>>
                        THEN /\ QueueHasRoom(tts_queue)
                             /\ tts_queue' = QPut(tts_queue,
                                  Sentence(partial_to_queue, turn, ord + 1, late))
                             /\ ord' = ord + 1
                        ELSE UNCHANGED <<tts_queue, ord>>
                ELSE /\ tts_buffer' = buf
                     /\ UNCHANGED <<tts_queue, ord>>
  /\ UNCHANGED <<pc, sessionVars, wsOpen, dataVars, text, turn, ttsVars,
                 countVars, nIn, closeCause>>
  /\ lastIn' = "none"
  /\ lastFail' = "none"
  /\ UNCHANGED <<prevFinal, prompt>>

\* the ways the while loop that reads the stream is left
StreamEndings == {"eof", "timeout", "error"}

\* the flush placed inside the try block: only a normal end reaches it
FlushesRemainderAtEof(cause, final_sentence) ==
  cause = "eof" /\ final_sentence # <<>>

\* if tts_buffer.strip(), after the try statement whichever way it was left
FlushesRemainder(cause, final_sentence) == final_sentence # <<>>

\* the stream ends (end of file, read timeout or stream error): the final
\* flush, the assistant entry and the completion gate, up to the return
StreamEnd(cause) ==
  /\ pc = "stream"
  /\ LET final_sentence == Strip(tts_buffer)
         flush == FlushesRemainder(cause, final_sentence)
         inv == GateInvokes(structured_data, ml_service)
         req == GateRequestsVerification(structured_data)
     IN \E r \in (IF inv THEN BOOLEAN ELSE {FALSE}) :
          /\ IF flush
             THEN /\ QueueHasRoom(tts_queue)
                  /\ tts_queue' = QPut(tts_queue,
                       Sentence(final_sentence, turn, ord + 1, llmDelim))
                  /\ tts_buffer' = <<>>
                  /\ ord' = ord + 1
             ELSE UNCHANGED <<tts_queue, tts_buffer, ord>>
          /\ conversation_history' =
               IF Strip(ai_message) # <<>>
               THEN HistoryAppend(conversation_history,
                                  [role |-> "assistant", turn |-> turn])
               ELSE conversation_history
          /\ mlCalls' = mlCalls + (IF inv THEN 1 ELSE 0)
          /\ IF wsOpen
             THEN /\ nDvr' = nDvr + (IF req THEN 1 ELSE 0)
                  /\ sent' = IF r THEN <<Msg("eligibility_result", turn, 0, FALSE)>>
                             ELSE IF req
                             THEN <<Msg("document_verification_required",
                                        turn, 0, FALSE)>>
                             ELSE <<>>
                  /\ pc' = "recv"
                  /\ UNCHANGED closeCause
             ELSE \* send_json raises on the closed websocket: the exception
                  \* leaves process_user_message and the receive loop
                  /\ UNCHANGED nDvr
                  /\ sent' = <<>>
                  /\ pc' = IF r \/ req THEN "cleanup" ELSE "recv"
                  /\ closeCause' = IF r \/ req THEN "disconnect" ELSE closeCause
  /\ text' = EmptyText
  /\ ai_message' = <<>>
  /\ llmDelim' = FALSE
  /\ UNCHANGED <<sessionVars, wsOpen, structured_data, firstSet, turn, nTok,
                 ttsVars, llmCalls, nIn>>
  /\ lastIn' = "none"
  /\ lastFail' = IF cause = "eof" THEN "none" ELSE "stream"
  /\ UNCHANGED <<prevFinal, prompt>>

\* ------------------------------------------------------ the receive loop
\* the next message is read while a reply is still being streamed
ReceivingDuringReply ==
  pc \in {"recv", "stream"} /\ wsOpen /\ nIn + nTok < MaxEvents

\* websocket.receive() is reached when the loop body, process_user_message
\* included, has returned
Receiving == pc = "recv" /\ wsOpen /\ nIn + nTok < MaxEvents

Received(kind) == nIn' = nIn + 1 /\ lastIn' = kind

\* statements of the loop body that leave the session as it is
Ignored ==
  /\ pc' = pc
  /\ sent' = <<>>
  /\ lastFail' = "none"
  /\ UNCHANGED <<sessionVars, wsOpen, dataVars, turnVars, tts_queue, tts_buffer,
                 ttsVars, countVars, closeCause>>

\* an exception that reaches the handlers around the loop
LeaveLoop(cause) ==
  /\ pc' = "cleanup"
  /\ closeCause' = cause
  /\ sent' = <<>>
  /\ lastFail' = "none"
  /\ UNCHANGED <<sessionVars, dataVars, turnVars, tts_queue, tts_buffer,
                 ttsVars, countVars>>

\* a binary frame for which AcceptWaveform returns true, with result text u
RecvAudioFinal(u) ==
  /\ Receiving
  /\ recognizer
  /\ Received("final")
  /\ IF u.blank
     THEN Ignored
     ELSE /\ process_user_message(u, <<Msg("final_transcript", turn + 1, 0, FALSE)>>)
          /\ UNCHANGED <<sessionVars, wsOpen, ttsVars, closeCause>>
  /\ prevFinal' = IF u.blank THEN prevFinal ELSE u

\* a partial result handed on like a final one
RecvAudioPartialAsFinal(nonempty) ==
  /\ Receiving
  /\ recognizer
  /\ Received("partial")
  /\ IF nonempty
     THEN /\ \E u \in Utterances :
               process_user_message(u, <<Msg("partial_transcript", turn, 0, FALSE)>>)
          /\ UNCHANGED <<sessionVars, wsOpen, ttsVars, closeCause>>
     ELSE Ignored
  /\ UNCHANGED prevFinal

\* a binary frame for which AcceptWaveform returns false
RecvAudioPartial(nonempty) ==
  /\ Receiving
  /\ recognizer
  /\ Received("partial")
  /\ pc' = pc
  /\ lastFail' = "none"
  /\ sent' = IF nonempty THEN <<Msg("partial_transcript", turn, 0, FALSE)>> ELSE <<>>
  /\ UNCHANGED <<sessionVars, wsOpen, dataVars, turnVars, tts_queue, tts_buffer,
                 ttsVars, countVars, closeCause>>
  /\ UNCHANGED prevFinal

\* a binary frame in a session without recognizer
RecvAudioNoRecognizer ==
  /\ Receiving
  /\ ~recognizer
  /\ Received("audio")
  /\ Ignored
  /\ UNCHANGED prevFinal

RecvPing ==
  /\ Receiving
  /\ Received("ping")
  /\ pc' = pc
  /\ lastFail' = "none"
  /\ sent' = <<Msg("pong", turn, 0, FALSE)>>
  /\ UNCHANGED <<sessionVars, wsOpen, dataVars, turnVars, tts_queue, tts_buffer,
                 ttsVars, countVars, closeCause>>
  /\ UNCHANGED prevFinal

RecvEndSession ==
  /\ Receiving
  /\ Received("end_session")
  /\ LeaveLoop("end_session")
  /\ UNCHANGED wsOpen
  /\ UNCHANGED prevFinal

\* {"type": "manual_transcript", "data": u}
RecvManual(u) ==
  /\ Receiving
  /\ Received("manual_transcript")
  /\ IF ~u.str
     THEN LeaveLoop("exception") /\ UNCHANGED wsOpen
     ELSE /\ process_user_message(u, <<>>)
          /\ UNCHANGED <<sessionVars, wsOpen, ttsVars, closeCause>>
  /\ UNCHANGED prevFinal

\* a JSON object of another type, or of none
RecvOtherType ==
  /\ Receiving
  /\ Received("other")
  /\ Ignored
  /\ UNCHANGED prevFinal

\* the JSONDecodeError reaches the handlers around the loop
RecvInvalidJsonFatal ==
  /\ Receiving
  /\ Received("invalid_json")
  /\ LeaveLoop("exception")
  /\ UNCHANGED wsOpen
  /\ UNCHANGED prevFinal

\* text that json.loads rejects: except json.JSONDecodeError, inside the loop
RecvInvalidJson ==
  /\ Receiving
  /\ Received("invalid_json")
  /\ Ignored
  /\ UNCHANGED prevFinal

\* valid JSON that is not an object: msg.get raises AttributeError
RecvNonObjectJson ==
  /\ Receiving
  /\ Received("non_object")
  /\ LeaveLoop("exception")
  /\ UNCHANGED wsOpen
  /\ UNCHANGED prevFinal

\* the client goes away while a reply is being streamed
ClientGone ==
  /\ pc = "stream"
  /\ wsOpen
  /\ wsOpen' = FALSE
  /\ sent' = <<>>
  /\ lastIn' = "none"
  /\ lastFail' = "none"
  /\ UNCHANGED <<pc, sessionVars, dataVars, turnVars, tts_queue, tts_buffer,
                 ttsVars, countVars, nIn, closeCause, prevFinal>>

\* websocket.receive() finds the client gone
Disconnect ==
  /\ pc = "recv"
  /\ ~wsOpen \/ nIn + nTok < MaxEvents
  /\ Received("disconnect")
  /\ LeaveLoop("disconnect")
  /\ wsOpen' = FALSE
  /\ UNCHANGED prevFinal

\* ------------------------------------------------------------- tts_worker
TtsGet ==
  /\ tts_pc = "get"
  /\ tts_queue # <<>>
  /\ tts_queue' = Tail(tts_queue)
  /\ IF Head(tts_queue).stop
     THEN tts_pc' = "stopped" /\ UNCHANGED tts_cur
     ELSE tts_pc' = "synth" /\ tts_cur' = Head(tts_queue)
  /\ sent' = <<>>
  /\ UNCHANGED lastAudio
  /\ UNCHANGED <<pc, sessionVars, wsOpen, dataVars, turnVars, tts_buffer,
                 countVars, nIn, closeCause>>
  /\ lastIn' = "none"
  /\ lastFail' = "none"
  /\ UNCHANGED prevFinal

\* synthesize_speech_piper returns audio (ok) or None
TtsSynth(ok) ==
  /\ tts_pc = "synth"
  /\ IF ok /\ wsOpen
     THEN /\ sent' = <<Msg("audio_chunk", tts_cur.turn, tts_cur.ord, tts_cur.late)>>
          /\ lastAudio' = [turn |-> tts_cur.turn, ord |-> tts_cur.ord]
          /\ tts_pc' = "get"
     ELSE IF ok
     THEN sent' = <<>> /\ tts_pc' = "stopped" /\ UNCHANGED lastAudio
     ELSE sent' = <<>> /\ tts_pc' = "get" /\ UNCHANGED lastAudio
  /\ tts_cur' = StopSignal
  /\ UNCHANGED <<pc, sessionVars, wsOpen, dataVars, turnVars, tts_queue,
                 tts_buffer, countVars, nIn, closeCause>>
  /\ lastIn' = "none"
  /\ lastFail' = IF ok THEN "none" ELSE "tts"
  /\ UNCHANGED prevFinal

\* ---------------------------------------------------------- finally block
Cleanup ==
  /\ pc = "cleanup"
  /\ QueueHasRoom(tts_queue)
  /\ tts_queue' = QPut(tts_queue, StopSignal)
  /\ pc' = "wait"
  /\ sent' = <<>>
  /\ UNCHANGED <<sessionVars, wsOpen, dataVars, turnVars, tts_buffer, ttsVars,
                 countVars, nIn, closeCause>>
  /\ lastIn' = "none"
  /\ lastFail' = "none"
  /\ UNCHANGED prevFinal

\* wait_for(tts_task, 2.0) returns because the worker has ended
WaitDone ==
  /\ pc = "wait"
  /\ tts_pc = "stopped"
  /\ pc' = "closed"
  /\ wsOpen' = FALSE
  /\ sent' = <<>>
  /\ UNCHANGED <<sessionVars, dataVars, turnVars, tts_queue, tts_buffer, ttsVars,
                 countVars, nIn, closeCause>>
  /\ lastIn' = "none"
  /\ lastFail' = "none"
  /\ UNCHANGED prevFinal

\* the wait times out and the worker is left running
WaitTimeoutNoCancel ==
  /\ pc = "wait"
  /\ tts_pc # "stopped"
  /\ pc' = "closed"
  /\ wsOpen' = FALSE
  /\ sent' = <<>>
  /\ UNCHANGED <<sessionVars, dataVars, turnVars, tts_queue, tts_buffer, ttsVars,
                 countVars, nIn, closeCause, prevFinal>>
  /\ lastIn' = "none"
  /\ lastFail' = "none"

\* wait_for(tts_task, 2.0) times out and cancels the worker
WaitTimeout ==
  /\ pc = "wait"
  /\ tts_pc # "stopped"
  /\ pc' = "closed"
  /\ tts_pc' = "stopped"
  /\ tts_cur' = StopSignal
  /\ UNCHANGED lastAudio
  /\ wsOpen' = FALSE
  /\ sent' = <<>>
  /\ UNCHANGED <<sessionVars, dataVars, turnVars, tts_queue, tts_buffer,
                 countVars, nIn, closeCause>>
  /\ lastIn' = "none"
  /\ lastFail' = "none"
  /\ UNCHANGED prevFinal

Next ==
  \/ \E u \in Utterances \cup {UBlank} : RecvAudioFinal(u)
  \/ \E nonempty \in BOOLEAN : RecvAudioPartial(nonempty)
  \/ RecvAudioNoRecognizer
  \/ RecvPing
  \/ RecvEndSession
  \/ \E u \in Utterances \cup {UBlank, UNonStr} : RecvManual(u)
  \/ RecvOtherType
  \/ RecvInvalidJson
  \/ RecvNonObjectJson
  \/ ClientGone
  \/ Disconnect
  \/ \E token \in Tokens : StreamToken(token)
  \/ \E cause \in StreamEndings : StreamEnd(cause)
  \/ TtsGet
  \/ \E ok \in BOOLEAN : TtsSynth(ok)
  \/ Cleanup
  \/ WaitDone
  \/ WaitTimeout

Spec == Init /\ [][Next]_vars

\* -------------------------------------------------- UserConnectionManager
voiceVars ==
  <<pc, recognizer, ml_service, wsOpen, conversation_history, structured_data,
    text, tts_queue, tts_buffer, ai_message, nTok, llmDelim, turn, ord,
    tts_pc, tts_cur, sent, lastAudio, mlCalls, llmCalls, nDvr, nIn, lastIn,
    closeCause, firstSet, lastFail, prevFinal, prompt>>

\* the elements of a list
Elems(list) == {list[i] : i \in 1..Len(list)}

\* list.remove(x): the first element equal to x is taken out
RemoveFirst(list, x) ==
  LET at == {i \in 1..Len(list) : list[i] = x}
      i == CHOOSE a \in at : \A b \in at : a <= b
  IN SubSeq(list, 1, i - 1) \o SubSeq(list, i + 1, Len(list))

\* del d[k]
Del(d, k) == [x \in (DOMAIN d) \ {k} |-> d[x]]

\* websockets are numbered in the order their endpoints are called
NextSocket(websocket) ==
  /\ endpoint[websocket].st = "new"
  /\ \A w \in WebSockets : w < websocket => endpoint[w].st # "new"

\* user_notifications_ws with a token decode_token rejects: close(1008)
RejectToken(websocket) ==
  /\ NextSocket(websocket)
  /\ endpoint' = [endpoint EXCEPT ![websocket] = [st |-> "rejected", user |-> 0]]
  /\ delivered' = 0
  /\ UNCHANGED <<active_connections, sending, voiceVars>>

\* connect(user_id, websocket), called by user_notifications_ws: accept,
\* then the append
connect(user_id, websocket) ==
  /\ NextSocket(websocket)
  /\ active_connections' =
       IF user_id \in DOMAIN active_connections
       THEN [active_connections EXCEPT ![user_id] = Append(@, websocket)]
       ELSE Put(active_connections, user_id, <<websocket>>)
  /\ endpoint' = [endpoint EXCEPT ![websocket] = [st |-> "open", user |-> user_id]]
  /\ delivered' = 0
  /\ UNCHANGED <<sending, voiceVars>>

\* a disconnect that leaves the key with its emptied list
disconnectKeepsKey(user_id, websocket) ==
  /\ endpoint[websocket] = [st |-> "open", user |-> user_id]
  /\ active_connections' =
       IF user_id \in DOMAIN active_connections
          /\ websocket \in Elems(active_connections[user_id])
       THEN [active_connections EXCEPT ![user_id] = RemoveFirst(@, websocket)]
       ELSE active_connections
  /\ endpoint' = [endpoint EXCEPT ![websocket] = [st |-> "closed", user |-> user_id]]
  /\ delivered' = 0
  /\ UNCHANGED <<sending, voiceVars>>

\* disconnect(user_id, websocket), called when receive_text raises
\* WebSocketDisconnect.  A for loop of send_to_user that runs over the list
\* of a deleted key keeps that list, now empty (detached).
disconnect(user_id, websocket) ==
  /\ endpoint[websocket] = [st |-> "open", user |-> user_id]
  /\ IF user_id \in DOMAIN active_connections
        /\ websocket \in Elems(active_connections[user_id])
     THEN LET rest == RemoveFirst(active_connections[user_id], websocket)
          IN IF rest = <<>>
             THEN /\ active_connections' = Del(active_connections, user_id)
                  /\ sending' = IF sending.user = user_id
                                THEN [sending EXCEPT !.detached = TRUE]
                                ELSE sending
             ELSE /\ active_connections' =
                       [active_connections EXCEPT ![user_id] = rest]
                  /\ UNCHANGED sending
     ELSE \* no such key, or remove raises ValueError
          UNCHANGED <<active_connections, sending>>
  /\ endpoint' = [endpoint EXCEPT ![websocket] = [st |-> "closed", user |-> user_id]]
  /\ delivered' = 0
  /\ UNCHANGED voiceVars

\* receive_text raises an exception other than WebSocketDisconnect: the
\* endpoint is left and disconnect is not called
EndpointFails(websocket) ==
  /\ endpoint[websocket].st = "open"
  /\ endpoint' = [endpoint EXCEPT ![websocket].st = "failed"]
  /\ delivered' = 0
  /\ UNCHANGED <<active_connections, sending, voiceVars>>

\* send_to_user(user_id, message) up to the start of its for loop
send_to_user(user_id) ==
  /\ sending = NoSend
  /\ user_id \in DOMAIN active_connections
  /\ sending' = [user |-> user_id, idx |-> 1, detached |-> FALSE]
  /\ delivered' = 0
  /\ UNCHANGED <<active_connections, endpoint, voiceVars>>

\* one pass of the for loop: the iterator reads the list at its index, and
\* send_json delivers (ok) or raises
SendNext(ok) ==
  /\ sending # NoSend
  /\ LET list == IF sending.detached THEN <<>>
                 ELSE active_connections[sending.user]
     IN IF sending.idx > Len(list)
        THEN sending' = NoSend /\ delivered' = 0
        ELSE IF ok /\ endpoint[list[sending.idx]].st = "open"
        THEN /\ delivered' = list[sending.idx]
             /\ sending' = [sending EXCEPT !.idx = @ + 1]
        ELSE sending' = NoSend /\ delivered' = 0
  /\ UNCHANGED <<active_connections, endpoint, voiceVars>>

NotifyNext ==
  \/ \E websocket \in WebSockets : RejectToken(websocket)
  \/ \E user_id \in UserIds, websocket \in WebSockets : connect(user_id, websocket)
  \/ \E user_id \in UserIds, websocket \in WebSockets : disconnect(user_id, websocket)
  \/ \E websocket \in WebSockets : EndpointFails(websocket)
  \/ \E user_id \in UserIds : send_to_user(user_id)
  \/ \E ok \in BOOLEAN : SendNext(ok)

NotifySpec == Init /\ [][NotifyNext]_vars

\* The session's way to its end does not read the text of a message or of
\* a reply beyond what the completion gate and the sentence boundary test
\* see: these inputs reach every branch of both.
TermUtterances == {UAll, UDocv}

TermTokens == {TokWord, TokEnd, TokBlank}

TermNext ==
  \/ \E u \in TermUtterances \cup {UBlank} : RecvAudioFinal(u)
  \/ \E nonempty \in BOOLEAN : RecvAudioPartial(nonempty)
  \/ RecvAudioNoRecognizer
  \/ RecvPing
  \/ RecvEndSession
  \/ \E u \in TermUtterances \cup {UBlank, UNonStr} : RecvManual(u)
  \/ RecvOtherType
  \/ RecvInvalidJson
  \/ RecvNonObjectJson
  \/ ClientGone
  \/ Disconnect
  \/ \E token \in TermTokens : StreamToken(token)
  \/ \E cause \in StreamEndings : StreamEnd(cause)
  \/ TtsGet
  \/ \E ok \in BOOLEAN : TtsSynth(ok)
  \/ Cleanup
  \/ WaitDone
  \/ WaitTimeout

\* The main task is a coroutine of the event loop: websocket.receive() on a
\* connection the client has left raises at once; once the task is in the
\* finally block it runs on, and wait_for returns when the worker ends or
\* after 2 s.
FairSpec ==
  /\ Init
  /\ [][TermNext]_vars
  /\ WF_vars(~wsOpen /\ Disconnect)
  /\ WF_vars(Cleanup)
  /\ WF_vars(WaitDone)
  /\ WF_vars(WaitTimeout)

\* A session taken up after k turns of small talk, each typed by the user
\* and answered by one sentence that was spoken; the event counters count
\* from here on.
PastHistory(k) ==
  [i \in 1..(2 * k) |->
     [role |-> IF i % 2 = 1 THEN "user" ELSE "assistant", turn |-> (i + 1) \div 2]]

HistInit ==
  \E k \in 0..MaxPastTurns :
    /\ pc = "recv"
    /\ recognizer \in BOOLEAN
    /\ ml_service \in BOOLEAN
    /\ wsOpen = TRUE
    /\ conversation_history = PastHistory(k)
    /\ structured_data = extract_structured_data(UChat, EmptyDict)
    /\ text = EmptyText
    /\ tts_queue = <<>>
    /\ tts_buffer = <<>>
    /\ ai_message = <<>>
    /\ nTok = 0
    /\ llmDelim = FALSE
    /\ turn = k
    /\ ord = IF k = 0 THEN 0 ELSE 1
    /\ tts_pc = "get"
    /\ tts_cur = StopSignal
    /\ sent = <<>>
    /\ lastAudio = [turn |-> k, ord |-> IF k = 0 THEN 0 ELSE 1]
    /\ mlCalls = 0
    /\ llmCalls = k
    /\ nDvr = 0
    /\ nIn = 0
    /\ lastIn = "none"
    /\ closeCause = "none"
    /\ firstSet = EmptyDict
    /\ lastFail = "none"
    /\ prevFinal = EmptyText
    /\ prompt = IF k = 0 THEN <<>>
                ELSE PromptWindow(SubSeq(PastHistory(k), 1, 2 * k - 1))
    /\ NotifyInit

HistNext ==
  \/ \E u \in {UChat, UBlank} : RecvManual(u)
  \/ \E token \in TermTokens : StreamToken(token)
  \/ \E cause \in StreamEndings : StreamEnd(cause)
  \/ TtsGet
  \/ \E ok \in BOOLEAN : TtsSynth(ok)

HistSpec == HistInit /\ [][HistNext]_vars

\* A turn under the condition its termination is stated for: the stream of
\* the language model ends, or stalls and readline's 30 s timeout fires.
TurnFairSpec ==
  /\ Init
  /\ [][TermNext]_vars
  /\ WF_vars(\E cause \in StreamEndings : StreamEnd(cause))

\* The streaming loop under run-on output: one chatty message, lines longer
\* than the flush length.
FlushNext ==
  \/ RecvManual(UHigh)
  \/ \E token \in LongTokens : StreamToken(token)
  \/ \E cause \in StreamEndings : StreamEnd(cause)
  \/ TtsGet
  \/ \E ok \in BOOLEAN : TtsSynth(ok)

FlushSpec == Init /\ [][FlushNext]_vars

\* ================================================================== claims

\* C1: Barge-in.  Once process_user_message has begun for a later turn, no
\* audio_chunk of a sentence queued by an earlier turn is sent: every
\* audio_chunk a step sends belongs to the latest turn begun.
C1_NoStaleAudio ==
  \A i \in DOMAIN sent : sent[i].type = "audio_chunk" => sent[i].turn = turn

\* C2: Within one turn the audio_chunk messages reach the client in the
\* order their sentences were queued: an audio_chunk never carries a smaller
\* ordinal than the audio_chunk of the same turn sent before it.
C2_AudioInOrder ==
  [][\A i \in DOMAIN sent' :
       (sent'[i].type = "audio_chunk" /\ sent'[i].turn = lastAudio.turn)
         => sent'[i].ord >= lastAudio.ord]_vars

\* C2 witness: the audio of the second sentence of a turn has just been sent.
C2_Witness ==
  \E i \in DOMAIN sent : sent[i].type = "audio_chunk" /\ sent[i].ord = 2

C4_InterimInert ==
  [][lastIn' = "partial" =>
       /\ structured_data' = structured_data
       /\ conversation_history' = conversation_history
       /\ llmCalls' = llmCalls
       /\ \A i \in DOMAIN sent' : sent'[i].type = "partial_transcript"]_vars

\* C4 witness: a partial result was handled, and sent to the client, in a
\* session that already holds profile data.
C4_Witness ==
  /\ lastIn = "partial"
  /\ sent # <<>>
  /\ structured_data # EmptyDict

\* C5: ml_service.predict_eligibility is called at most once per session.
C5_ScoringAtMostOnce == mlCalls <= 1

\* C6: document_verification_required is sent at most once per session,
\* however many messages are processed while documents are unverified.
C6_VerificationRequestedOnce == nDvr <= 1

\* C7: While documents are not verified the eligibility scorer has never
\* been called and no step sends an eligibility_result.
C7_NoScoringUnverified ==
  ~DocVerified(structured_data) =>
    /\ mlCalls = 0
    /\ \A i \in DOMAIN sent : sent[i].type # "eligibility_result"

\* C7 witness: the completion gate has acted on a complete, unverified
\* profile in a session that has an ML service.
C7_Witness ==
  /\ HasAllFields(structured_data)
  /\ ~DocVerified(structured_data)
  /\ ml_service
  /\ nDvr >= 1

\* C8: Neither the delimiter nor anything the stream produces after it is
\* forwarded as speech: no ai_token, queued sentence or audio_chunk carries
\* text from the delimiter on.
C8_NoSpeechAfterDelimiter ==
  /\ \A i \in DOMAIN sent :
       sent[i].type \in {"ai_token", "audio_chunk"} => ~sent[i].late
  /\ \A i \in DOMAIN tts_queue : ~tts_queue[i].late

C10_OnlyTransportEnds ==
  pc \in {"cleanup", "wait", "closed"} => closeCause \in {"disconnect", "end_session"}

\* C11: Every backend failure during a turn (the language model cannot be
\* started, the stream times out or raises, speech synthesis fails) is
\* reported: the step in which the failure is met sends an error message,
\* and the receive loop goes on.
C11_FailureReported ==
  (lastFail # "none" /\ closeCause = "none") =>
    /\ \E i \in DOMAIN sent : sent[i].type = "error"
    /\ pc \in {"recv", "stream"}

\* C12: A step that takes in a message which leaves the profile complete
\* (all four fields) and the documents unverified sends
\* document_verification_required and does not call run_ollama_stream.
C12_VerificationWithoutDispatch ==
  [][(turn' = turn + 1 /\ HasAllFields(structured_data')
        /\ ~DocVerified(structured_data')) =>
       /\ llmCalls' = llmCalls
       /\ \E i \in DOMAIN sent' :
            sent'[i].type = "document_verification_required"]_vars

\* C13: Numeric guard.  In every reachable state monthly_income, credit_score
\* and loan_amount, when present in structured_data, lie within their
\* accepted ranges, so the scorer, which reads them from structured_data, is
\* never called with an income below 100, a score below 300 or an amount
\* below 1000.
C13_FieldsWithinRange ==
  /\ "monthly_income" \in DOMAIN structured_data =>
       /\ INCOME_MIN <= structured_data["monthly_income"]
       /\ structured_data["monthly_income"] <= INCOME_MAX
  /\ "credit_score" \in DOMAIN structured_data =>
       /\ CREDIT_MIN <= structured_data["credit_score"]
       /\ structured_data["credit_score"] <= CREDIT_MAX
  /\ "loan_amount" \in DOMAIN structured_data =>
       /\ LOAN_MIN <= structured_data["loan_amount"]
       /\ structured_data["loan_amount"] <= LOAN_MAX

\* C13 witness: the scorer has been called on a profile that holds the
\* three numeric fields.
C13_Witness ==
  /\ mlCalls >= 1
  /\ {"monthly_income", "credit_score", "loan_amount"} \subseteq DOMAIN structured_data

\* C14: The eligibility scorer is called only on a profile that holds all
\* four fields of the completion gate.  Fields are never removed, so in a
\* session where the scorer has been called structured_data holds name,
\* monthly_income, credit_score and loan_amount.
C14_ScoringNeedsAllFields == mlCalls >= 1 => HasAllFields(structured_data)

\* C15: document_verified is monotonic: once structured_data holds
\* document_verified = TRUE, no step removes it or sets it to another value.
C15_VerifiedMonotonic ==
  [][DocVerified(structured_data) => DocVerified(structured_data')]_vars

\* C15 witness: after the verification a further message has been taken in
\* and extracted, and the flag is still set.
C15_Witness ==
  /\ DocVerified(structured_data)
  /\ pc = "stream"
  /\ turn = 2
  /\ text = UAll
  /\ HasAllFields(structured_data)

\* C16: Profile updates are applied in the order the turns were accepted.
\* Every change of structured_data is made by the step that accepts a new
\* turn, from a final transcript or a manual_transcript, at a moment when no
\* earlier turn is still being processed; the steps of the reply stream and
\* of tts_worker never change it.
C16_UpdatesInTurnOrder ==
  [][structured_data' # structured_data =>
       /\ pc = "recv"
       /\ turn' = turn + 1
       /\ lastIn' \in {"final", "manual_transcript"}]_vars

\* C16 witness: the second turn's extraction has been applied on top of the
\* first turn's: the name is the first turn's, the loan amount the second's.
C16_Witness ==
  /\ turn = 2
  /\ text = UAll
  /\ "name" \in DOMAIN structured_data
  /\ structured_data["name"] = <<"Bob">>
  /\ "loan_amount" \in DOMAIN structured_data
  /\ structured_data["loan_amount"] = 20000

\* C17: Duplicate suppression.  A step that reads a non-empty final
\* transcript whose text equals the text of the final transcript before it
\* discards it: it appends nothing to conversation_history, leaves
\* structured_data as it is and does not call run_ollama_stream.
C17_DuplicateDiscarded ==
  [][(lastIn' = "final" /\ prevFinal' # EmptyText /\ prevFinal' = prevFinal
        /\ \E i \in DOMAIN sent' : sent'[i].type = "final_transcript") =>
       /\ conversation_history' = conversation_history
       /\ structured_data' = structured_data
       /\ llmCalls' = llmCalls]_vars

\* C18: Anti-loop guard.  No text of a fabricated user turn is forwarded:
\* the reply forwarded as ai_token so far (ai_message) and the sentences
\* queued for synthesis hold no start of a fabricated user turn.
C18_NoFabricatedTurn ==
  /\ ~HasUserTurn(ai_message)
  /\ \A i \in DOMAIN tts_queue : ~HasUserTurn(tts_queue[i].text)
  /\ ~HasUserTurn(tts_cur.text)

C20_RemainderFlushed ==
  [][(pc = "stream" /\ pc' # "stream" /\ Strip(tts_buffer) # <<>>) =>
       /\ Len(tts_queue') = Len(tts_queue) + 1
       /\ tts_queue'[Len(tts_queue')].text = Strip(tts_buffer)
       /\ tts_buffer' = <<>>]_vars

\* C20 witness: a stream that had produced "hi" was ended by a timeout or an
\* error, and "hi" is the newest sentence in the queue.
C20_Witness ==
  /\ lastFail = "stream"
  /\ tts_buffer = <<>>
  /\ tts_queue # <<>>
  /\ tts_queue[Len(tts_queue)].text = TokWord

\* C21: Size-based fallback flush.  Whenever a pass of the streaming loop
\* leaves more than 100 characters buffered (the buffer plus the line just
\* read), that pass queues a sentence for synthesis, whether or not the
\* buffered text holds a space.
C21_LongBufferFlushed ==
  [][(pc = "stream" /\ nTok' = nTok + 1
        /\ Len(tts_buffer) + (Len(ai_message') - Len(ai_message)) > FLUSH_LEN) =>
       Len(tts_queue') = Len(tts_queue) + 1]_vars

C23_HistoryAppendOnly ==
  [][/\ \/ conversation_history' = conversation_history
        \/ /\ turn' = turn + 1
           /\ conversation_history' =
                conversation_history \o <<[role |-> "user", turn |-> turn']>>
        \/ /\ pc = "stream" /\ pc' # "stream"
           /\ conversation_history' =
                conversation_history \o <<[role |-> "assistant", turn |-> turn]>>
     /\ (turn' # turn \/ llmCalls' # llmCalls) =>
          /\ Len(conversation_history') = Len(conversation_history) + 1
          /\ conversation_history'[Len(conversation_history')].role = "user"
     /\ (pc = "stream" /\ pc' # "stream" /\ Strip(ai_message) # <<>>) =>
          /\ Len(conversation_history') = Len(conversation_history) + 1
          /\ conversation_history'[Len(conversation_history')].role = "assistant"]_vars

\* a second message accepted after a reply that was recorded
C23_Witness ==
  /\ Len(conversation_history) = 3
  /\ conversation_history[2] = [role |-> "assistant", turn |-> 1]
  /\ conversation_history[3] = [role |-> "user", turn |-> 2]

\* C24: the prompt of a turn holds exactly the most recent 5 entries of
\* conversation_history as it stands at the dispatch (all of them when there
\* are fewer), in their order, and the last of them is the turn's user
\* message.
C24_PromptIsRecentWindow ==
  llmCalls > 0 =>
    LET users == {i \in 1..Len(conversation_history) :
                    conversation_history[i].role = "user"}
        k == CHOOSE i \in users : \A j \in users : j <= i
        n == Len(prompt)
    IN /\ n = (IF k < 5 THEN k ELSE 5)
       /\ \A i \in 1..n : prompt[i] = conversation_history[k - n + i]
       /\ prompt[n] = [role |-> "user", turn |-> turn]

\* a message dispatched on top of six earlier entries: the two oldest are
\* left out of the prompt
C24_Witness ==
  /\ pc = "stream"
  /\ Len(conversation_history) = 7
  /\ Len(prompt) = 5
  /\ prompt[1] = conversation_history[3]

\* C25: turn processing is serial: a read of the websocket happens only when
\* no call of process_user_message is under way.  So right after a read
\* either no stream is open, or the open stream is the one this message has
\* just started and nothing of a reply has been read, buffered or queued
\* for it.
C25_TurnsSerial ==
  (lastIn # "none" /\ pc = "stream") =>
    /\ lastIn \in {"final", "manual_transcript"}
    /\ ai_message = <<>>
    /\ tts_buffer = <<>>
    /\ ord = 0
    /\ ~llmDelim

\* a second spoken message starts its stream after the first reply was
\* read to its end and recorded
C25_Witness ==
  /\ lastIn = "final"
  /\ pc = "stream"
  /\ turn = 2
  /\ llmCalls = 2
  /\ Len(conversation_history) = 3

\* C26: first value sticks: a step never removes a profile field that
\* structured_data holds and never changes its value.
C26_ProfileFieldKept ==
  [][\A k \in ProfileFields :
       k \in DOMAIN structured_data =>
         /\ k \in DOMAIN structured_data'
         /\ structured_data'[k] = structured_data[k]]_vars

\* a later message names another income and another score: the profile
\* still holds the first ones
C26_Witness ==
  /\ turn = 2
  /\ text = UNoName
  /\ "monthly_income" \in DOMAIN structured_data
  /\ structured_data["monthly_income"] = 400
  /\ "credit_score" \in DOMAIN structured_data
  /\ structured_data["credit_score"] = 700
  /\ "loan_amount" \in DOMAIN structured_data

\* C27: no speakable text is carried from one turn into the next: whenever
\* process_user_message is not under way tts_buffer is empty, and while a
\* reply is streamed the buffer is an end piece of that reply's own text.
C27_BufferEmptyBetweenTurns ==
  /\ pc # "stream" => tts_buffer = <<>>
  /\ pc = "stream" =>
       /\ Len(tts_buffer) <= Len(ai_message)
       /\ \A i \in 1..Len(tts_buffer) :
            tts_buffer[i] = ai_message[Len(ai_message) - Len(tts_buffer) + i]

\* a reply of two words without punctuation was cut off by the timeout or
\* an error: both words were queued and the buffer is empty again
C27_Witness ==
  /\ pc = "recv"
  /\ lastFail = "stream"
  /\ tts_buffer = <<>>
  /\ tts_queue # <<>>
  /\ tts_queue[Len(tts_queue)].text = TokWord \o TokWord

\* C28: for a turn started from audio, final_transcript is sent before any
\* other message of that turn: the step that accepts the final transcript
\* sends final_transcript first and once, and no step sends a message that
\* belongs to a turn not yet accepted.
C28_TranscriptFirst ==
  /\ \A i \in 1..Len(sent) : sent[i].turn <= turn
  /\ (lastIn = "final" /\ sent # <<>>) =>
       /\ sent[1] = Msg("final_transcript", turn, 0, FALSE)
       /\ \A i \in 2..Len(sent) :
            /\ sent[i].type # "final_transcript"
            /\ sent[i].turn = turn

\* a spoken message that completes the profile: final_transcript, then
\* structured_update
C28_Witness ==
  /\ lastIn = "final"
  /\ Len(sent) >= 2
  /\ sent[1].type = "final_transcript"
  /\ sent[2].type = "structured_update"
  /\ HasAllFields(structured_data)

\* C29: a text message that is not valid JSON is ignored: the step that
\* reads it leaves structured_data, conversation_history and tts_queue as
\* they are, sends nothing, and the receive loop goes on.
C29_InvalidJsonIgnored ==
  [][lastIn' = "invalid_json" =>
       /\ UNCHANGED <<structured_data, conversation_history, tts_queue>>
       /\ sent' = <<>>
       /\ pc = "recv" /\ pc' = "recv"
       /\ wsOpen'
       /\ closeCause' = "none"]_vars

\* malformed text read in a session that holds a full profile, a recorded
\* reply and a sentence waiting for synthesis
C29_Witness ==
  /\ lastIn = "invalid_json"
  /\ HasAllFields(structured_data)
  /\ Len(conversation_history) = 2
  /\ tts_queue # <<>>
  /\ pc = "recv"

\* the websockets connect was called for with user id u and disconnect was
\* not
ConnectedFor(u) ==
  {w \in WebSockets : endpoint[w].user = u /\ endpoint[w].st \in {"open", "failed"}}

\* C30: after any interleaving of connect and disconnect calls the list
\* under a user id holds exactly, and once each, the websockets connected
\* for that user and not yet disconnected; no user id maps to an empty
\* list; and send_to_user delivers only to websockets of that list.
C30_RegistryExact ==
  /\ DOMAIN active_connections \subseteq UserIds
  /\ \A u \in DOMAIN active_connections : active_connections[u] # <<>>
  /\ \A u \in UserIds :
       LET list == IF u \in DOMAIN active_connections
                   THEN active_connections[u] ELSE <<>>
       IN /\ Elems(list) = ConnectedFor(u)
          /\ Len(list) = Cardinality(ConnectedFor(u))
  /\ delivered # 0 =>
       /\ sending.user \in DOMAIN active_connections
       /\ delivered \in Elems(active_connections[sending.user])
       /\ delivered \in ConnectedFor(sending.user)

\* a notification delivered to the second of two websockets that are left
\* for a user after another one of that user was disconnected
C30_Witness ==
  /\ delivered # 0
  /\ \E w \in WebSockets : endpoint[w] = [st |-> "closed", user |-> sending.user]
  /\ Len(active_connections[sending.user]) = 2
  /\ delivered = active_connections[sending.user][2]

====
